---- MODULE Spec2Model ----
(***************************************************************************)
(* PyTweet request pipeline: HTTPClient.request (pytweet/http.py), its     *)
(* 200-body classifier check_200, the 429 sleep-and-resend branch and the   *)
(* body decoding that follows.  Python values that may be None are tagged   *)
(* records; JSON objects are TLA+ records, JSON arrays are sequences and    *)
(* JSON strings are sequences of words, so that "key in dict", indexing and *)
(* str.startswith are computed rather than assumed.                         *)
(***************************************************************************)
EXTENDS Integers, Sequences, FiniteSets, TLC

VARIABLES
    credentials,      \* HTTPClient.credentials: name -> None | str
    auth_session,     \* HTTPClient._auth: None until the first request()
    default_headers,  \* the dict object bound to request()'s default headers={}
    pc,               \* "idle" | "sent" | "done": position of the caller in request()
    args,             \* arguments of the request() call in progress
    wire,             \* what the call did so far: sends and sleeps, in order
    response,         \* responses received by the call, in order
    outcome,          \* how the call ended: a return value or a raised exception
    upload_pc,        \* "idle" | "calling" | "done": position of the caller in upload()
    upload_call,      \* arguments of the upload() call in progress: file, command, media_id
    upload_locals,    \* its locals: the phase, segment_id, bytes_sent, the reader's position
    upload_log,       \* sends and sleeps of upload() before its current request() call
    upload_outcome,   \* how upload() ended
    threads,          \* callers that run request() at once on the one client: their locals
    method_pc,        \* "idle" | "request" | "upload" | "done": position in a method that calls request() or upload()
    method_call,      \* the method called and its arguments
    method_locals,    \* its locals
    method_log,       \* sends, responses and sleeps of the method before its current call
    method_outcome,   \* how the method ended
    other_client      \* a second HTTPClient instance of the process: None until it is constructed

request_vars == <<credentials, auth_session, default_headers, pc, args, wire, response, outcome>>
upload_vars == <<upload_pc, upload_call, upload_locals, upload_log, upload_outcome>>
method_vars == <<method_pc, method_call, method_locals, method_log, method_outcome>>
vars == <<request_vars, upload_vars, threads, method_vars, other_client>>

---------------------------------------------------------------------------
(* Bounds of the model *)

\* how many of the five credentials may be None in one client
MaxAbsent == 1
\* x-rate-limit-reset and time.time() are drawn from 0..MaxEpoch
MaxEpoch == 1

---------------------------------------------------------------------------
(* Python values *)

None == [t |-> "NoneType"]
Str(s) == [t |-> "str", v |-> s]
Dict(d) == [t |-> "dict", v |-> d]
List(l) == [t |-> "list", v |-> l]

EmptyDict == Dict(<<>>)

\* bool(x) for the values passed as json= and data=
Truthy(x) == IF x.t = "NoneType" THEN FALSE ELSE DOMAIN x.v # {}

\* d[key] = value on a dict object
SetItem(d, key, value) ==
    [k \in (DOMAIN d) \cup {key} |-> IF k = key THEN value ELSE d[k]]

\* s.startswith(prefix), strings being sequences of words
StartsWith(s, prefix) ==
    /\ Len(s) >= Len(prefix)
    /\ SubSeq(s, 1, Len(prefix)) = prefix

\* str.upper() on the method names used by the callers
Upper(m) ==
    CASE m = "get" -> "GET"
      [] m = "post" -> "POST"
      [] OTHER -> m

---------------------------------------------------------------------------
(* The client *)

CredentialNames ==
    <<"bearer_token", "consumer_key", "consumer_key_secret",
      "access_token", "access_token_secret">>

CredentialValue(k) == Str(<<"value-of", k>>)

\* the credential dicts a constructed client can hold
Clients ==
    { c \in [ {CredentialNames[i] : i \in 1..Len(CredentialNames)} ->
                {None} \cup {CredentialValue(CredentialNames[i]) : i \in 1..Len(CredentialNames)} ] :
        /\ \A i \in 1..Len(CredentialNames) :
              c[CredentialNames[i]] \in {None, CredentialValue(CredentialNames[i])}
        /\ Cardinality({i \in 1..Len(CredentialNames) : c[CredentialNames[i]] = None}) <= MaxAbsent }

base_url == <<"https://api.twitter.com/">>
upload_url == <<"https://upload.twitter.com/1.1/media/upload.json">>

\* OauthSession(consumer_key, consumer_key_secret) + set_access_token(...)
OauthSession(c) ==
    [consumer_key |-> c["consumer_key"],
     consumer_key_secret |-> c["consumer_key_secret"],
     access_token |-> c["access_token"],
     access_token_secret |-> c["access_token_secret"]]

\* the oauth1 property of the session: the signer handed to requests as auth=
oauth1(session) == [t |-> "OAuth1", v |-> session]

PyFalse == [t |-> "bool", v |-> FALSE]

user_agent == <<"Py-Tweet", "Python", "requests">>

---------------------------------------------------------------------------
(* Arguments of a request() call *)

\* the dicts a caller passes as headers= (when it passes one)
CallerHeaders ==
    [own |-> <<>>,
     own_auth |-> [k \in {"Authorization"} |-> <<"OAuth", "caller">>],
     \* {"Authorization": f"Bearer {self.bearer_token}"}, of fetch_user and fetch_user_byname
     bearer |-> [k \in {"Authorization"} |-> <<"Bearer", CredentialValue("bearer_token")>>],
     bearer_none |-> [k \in {"Authorization"} |-> <<"Bearer", None>>]]

Payload == Dict([text |-> <<"hello">>])

Args ==
    [method : {"get"},
     version : {<<"2">>},
     path : {<<"/users/1">>},
     use_base_url : {TRUE},
     headers : {"default", "own", "own_auth"},
     params : {EmptyDict},
     json : {EmptyDict, Payload},
     data : {EmptyDict, Payload},
     files : {EmptyDict},
     auth : BOOLEAN,
     is_json : BOOLEAN]
  \cup
    [method : {"post"},
     version : {<<>>},
     path : {upload_url},
     use_base_url : {FALSE},
     headers : {"default"},
     params : {EmptyDict},
     json : {EmptyDict},
     data : {Payload},
     files : {EmptyDict},
     auth : {TRUE},
     is_json : {TRUE}]

---------------------------------------------------------------------------
(* Responses of the server *)

COULD_NOT_FIND == <<"Could", "not", "find">>
CANNOT_PARSE_RULE == <<"Cannot", "parse", "rule">>

\* the errors member of a body: absent (<<>>) or present (<<array>>)
ErrorsOptions ==
    { <<>>,
      << <<>> >>,
      << <<[detail |-> COULD_NOT_FIND \o <<"user", "with", "id:", "123">>]>> >>,
      << <<[detail |-> <<"Sorry,", "you", "are", "not", "authorized">>]>> >>,
      << <<[details |-> << CANNOT_PARSE_RULE \o <<"(at", "position", "1)">> >>]>> >>,
      << <<[title |-> <<"Invalid", "Request">>]>> >> }

\* the meta member of a body: absent (<<>>) or present (<<object>>)
MetaOptions ==
    { <<>>,
      << [result_count |-> 0] >>,
      << [result_count |-> 1, next_token |-> <<"a">>] >>,
      << [summary |-> [created |-> 0, not_created |-> 1, valid |-> 0, invalid |-> 1]] >> }

MakeObject(e, m) ==
    [k \in {"data"} \cup (IF Len(e) = 0 THEN {} ELSE {"errors"})
                    \cup (IF Len(m) = 0 THEN {} ELSE {"meta"}) |->
        CASE k = "errors" -> e[1]
          [] k = "meta" -> m[1]
          [] OTHER -> <<"payload">>]

Invalid == [t |-> "invalid"]

\* the processing_info member of an upload endpoint's body
ProcessingInfos ==
    { [state |-> "pending", check_after_secs |-> 1],
      [state |-> "in_progress", check_after_secs |-> 1],
      [state |-> "succeeded"],
      [state |-> "failed"],
      [state |-> "failed", check_after_secs |-> 1] }

MEDIA_ID == [t |-> "int", v |-> 7]

\* the bodies of the upload endpoint: a media_id, with or without processing_info
UploadDocuments ==
    {Dict([media_id |-> MEDIA_ID])}
    \cup {Dict([media_id |-> MEDIA_ID, processing_info |-> p]) : p \in ProcessingInfos}

\* the body of a direct message endpoint
EVENT ==
    Dict([event |-> [message_create |-> [target |-> [recipient_id |-> <<"123">>]]]])

\* what response.text can hold: text that is no JSON, a JSON array, a JSON object
Documents ==
    {Invalid, List(<<>>)} \cup {Dict(MakeObject(e, m)) : e \in ErrorsOptions, m \in MetaOptions}
    \cup UploadDocuments \cup {EVENT}

Text(doc) == [t |-> "str", document |-> doc]

Statuses == {200, 201, 202, 204, 400, 401, 403, 404, 409, 429, 500, 503}

RATE_LIMIT_RESET == "x-rate-limit-reset"

ResponseHeaders ==
    {<<>>} \cup {[k \in {RATE_LIMIT_RESET} |-> n] : n \in 0..MaxEpoch}

\* requests.models.Response: the attributes request() and check_200 use
Responses ==
    [status_code : Statuses, headers : ResponseHeaders, text : {Text(d) : d \in Documents}]

---------------------------------------------------------------------------
(* How a call ends, and what it does on the way *)

Return(v) == [kind |-> "return", value |-> v]
Raise(e, a) == [kind |-> "raise", exc |-> e, arg |-> a]
Pending == [kind |-> "none"]

Send(req) == [ev |-> "send", req |-> req]
\* time.sleep(secs), entered when the clock read now
Sleep(secs, now) == [ev |-> "sleep", secs |-> secs, at |-> now]

---------------------------------------------------------------------------
(* check_200: the classifier of a 200 body *)

Normal == [kind |-> "normal"]

check_200(resp) ==
    LET doc == resp.text.document IN
    IF doc.t = "invalid"
      THEN Normal                                   \* JSONDecodeError: caught, return
    ELSE IF doc.t # "dict"
      THEN Raise("AttributeError", Str(<<"keys">>)) \* res.keys() on a list
    ELSE
      LET res == doc.v IN
      IF "errors" \notin DOMAIN res
        THEN Normal
      ELSE IF Len(res["errors"]) > 0
        THEN
          LET first == res["errors"][1] IN
          IF "detail" \in DOMAIN first
            THEN IF StartsWith(first["detail"], COULD_NOT_FIND)
                   THEN Raise("NotFoundError", resp)
                   ELSE Normal
          ELSE IF "details" \in DOMAIN first
            THEN IF Len(first["details"]) = 0
                   THEN Raise("IndexError", Str(<<"list index out of range">>))
                 ELSE IF StartsWith(first["details"][1], CANNOT_PARSE_RULE)
                   THEN IF "meta" \in DOMAIN res /\ "summary" \in DOMAIN res["meta"]
                          THEN Raise("SyntaxError", Str(first["details"][1]))
                          \* KeyError while formatting the warning: caught
                          ELSE Raise("PytweetException", doc)
                 ELSE Normal
          ELSE Normal
        \* the else of "if res.get('errors')": res["errors"][0] on an empty list
        ELSE Raise("IndexError", Str(<<"list index out of range">>))

---------------------------------------------------------------------------
(* HTTPClient.request after the first send *)

STATUS_ATTRIBUTE == "staus_code"

\* code = response.staus_code
status_read(resp) ==
    IF STATUS_ATTRIBUTE \in DOMAIN resp
      THEN Return(resp[STATUS_ATTRIBUTE])
      ELSE Raise("AttributeError", Str(<<STATUS_ATTRIBUTE>>))

FallThrough == [kind |-> "fallthrough"]
RateLimited == [kind |-> "ratelimited"]

\* the if/elif chain on code
classify(code, resp) ==
    IF code = 200
      THEN LET c == check_200(resp) IN IF c.kind = "raise" THEN c ELSE FallThrough
    ELSE IF code \in {201, 202, 204} THEN Return(None)
    ELSE IF code = 400 THEN Raise("BadRequests", resp)
    ELSE IF code = 401 THEN Raise("Unauthorized", resp)
    ELSE IF code = 403 THEN Raise("Forbidden", resp)
    ELSE IF code = 404 THEN Raise("NotFound", resp)
    ELSE IF code = 409 THEN Raise("Conflict", resp)
    ELSE IF code = 429 THEN RateLimited
    ELSE FallThrough

\* remaining = int(headers["x-rate-limit-reset"]); sleep_for = (remaining - int(time.time())) + 1
sleep_for(resp, now) == (resp.headers[RATE_LIMIT_RESET] - now) + 1

\* the 429 branch up to and including time.sleep(sleep_for)
rate_limit_wait(resp, now) ==
    IF RATE_LIMIT_RESET \notin DOMAIN resp.headers
      THEN Raise("KeyError", Str(<<RATE_LIMIT_RESET>>))
    ELSE IF sleep_for(resp, now) < 0
      THEN Raise("ValueError", Str(<<"sleep length must be non-negative">>))
    ELSE [kind |-> "slept", secs |-> sleep_for(resp, now)]

\* the decoding of the last response
decode(resp, is_json) ==
    LET doc == resp.text.document IN
    IF ~is_json THEN Return(resp.text)
    ELSE IF doc.t = "invalid" THEN Return(resp.text)
    ELSE IF doc.t # "dict" THEN Raise("AttributeError", Str(<<"keys">>))
    ELSE IF "meta" \in DOMAIN doc.v
              /\ "result_count" \in DOMAIN doc.v["meta"]
              /\ doc.v["meta"]["result_count"] = 0
      THEN Return(List(<<>>))
    ELSE Return(doc)

---------------------------------------------------------------------------
(* HTTPClient.request up to the first send *)

\* url = self.base_url + version + path, or path
build_url(a) ==
    IF a.use_base_url THEN base_url \o a.version \o a.path ELSE a.path

\* the dict object the call's headers parameter is bound to
headers_object(a, defaults) ==
    IF a.headers = "default" THEN defaults ELSE CallerHeaders[a.headers]

\* the Authorization default and the User-Agent, written into that dict
fill_headers(h, bearer_token) ==
    SetItem(IF "Authorization" \notin DOMAIN h
              THEN SetItem(h, "Authorization", <<"Bearer", bearer_token>>)
              ELSE h,
            "User-Agent", user_agent)

\* a loop that looks at the first credential only
missing_credentials_first_only(c) ==
    {i \in {1} : c[CredentialNames[i]] = None}

\* for k, v in self.credentials.items(): if v is None: raise ...
missing_credentials(c) ==
    {i \in 1..Len(CredentialNames) : c[CredentialNames[i]] = None}

first_missing(c) ==
    CredentialNames[CHOOSE i \in missing_credentials(c) :
                        \A j \in missing_credentials(c) : i <= j]

credential_check(a, c) ==
    IF a.auth /\ missing_credentials(c) # {}
      THEN Raise("PytweetException",
                 Str(<<first_missing(c), "is a required credential for this action.">>))
      ELSE Normal

\* the json argument sent as it came
json_sent_kept(a) == a.json

\* if data: json = None
json_sent(a) == IF Truthy(a.data) THEN None ELSE a.json

\* if json: data = None
data_sent(a) == IF Truthy(json_sent(a)) THEN None ELSE a.data

\* the arguments of self.__session.request(...)
prepared(a, h, session) ==
    [method |-> Upper(a.method),
     url |-> build_url(a),
     headers |-> h,
     params |-> a.params,
     data |-> data_sent(a),
     json |-> json_sent(a),
     files |-> a.files,
     auth |-> IF a.auth THEN oauth1(session) ELSE PyFalse]

\* a send that is issued twice
transmit_twice(w, req) == Append(Append(w, Send(req)), Send(req))

\* self.__session.request(...): one HTTP request goes out
transmit(w, req) == Append(w, Send(req))

\* request() from its entry to the first send, or to the credential error
send_request(a) ==
    /\ LET session == IF auth_session = None THEN OauthSession(credentials) ELSE auth_session
           h == fill_headers(headers_object(a, default_headers), credentials["bearer_token"])
           check == credential_check(a, credentials)
       IN  /\ auth_session' = session
           /\ default_headers' = IF a.headers = "default" THEN h ELSE default_headers
           /\ args' = a
           /\ response' = <<>>
           /\ IF check.kind = "raise"
                THEN /\ outcome' = check
                     /\ wire' = <<>>
                     /\ pc' = "done"
                ELSE /\ outcome' = Pending
                     /\ wire' = transmit(<<>>, prepared(a, h, session))
                     /\ pc' = "sent"
    /\ UNCHANGED credentials

\* a caller other than upload() calls request()
request(a) ==
    /\ pc = "idle"
    /\ upload_pc = "idle"
    /\ method_pc = "idle"
    /\ send_request(a)
    /\ UNCHANGED <<upload_vars, threads, method_vars, other_client>>

\* the call ends: the exception propagates or the value is returned
complete(rs, o, evs) ==
    /\ response' = rs
    /\ outcome' = o
    /\ wire' = evs
    /\ pc' = "done"
    /\ UNCHANGED <<credentials, auth_session, default_headers, args>>
    /\ UNCHANGED <<upload_vars, threads, method_vars, other_client>>

\* the response arrives and request() runs to its end
respond(r1) ==
    /\ pc = "sent"
    /\ LET code == status_read(r1) IN
       IF code.kind = "raise"
         THEN complete(<<r1>>, code, wire)
         ELSE
           LET c == classify(code.value, r1) IN
           IF c.kind = "fallthrough"
             THEN complete(<<r1>>, decode(r1, args.is_json), wire)
           ELSE IF c.kind # "ratelimited"
             THEN complete(<<r1>>, c, wire)
           ELSE
             \E now \in 0..MaxEpoch :
               LET w == rate_limit_wait(r1, now) IN
               IF w.kind = "raise"
                 THEN complete(<<r1>>, w, wire)
                 ELSE \E r2 \in Responses :
                        complete(<<r1, r2>>, decode(r2, args.is_json),
                                 transmit(Append(wire, Sleep(w.secs, now)), wire[1].req))

\* the caller has the result; the client is idle again
finish ==
    /\ pc = "done"
    /\ upload_pc = "idle"
    /\ method_pc = "idle"
    /\ pc' = "idle"
    /\ args' = <<>>
    /\ wire' = <<>>
    /\ response' = <<>>
    /\ outcome' = Pending
    /\ UNCHANGED <<credentials, auth_session, default_headers>>
    /\ UNCHANGED <<upload_vars, threads, method_vars, other_client>>

Init ==
    /\ credentials \in Clients
    /\ auth_session = None
    /\ default_headers = <<>>
    /\ pc = "idle"
    /\ args = <<>>
    /\ wire = <<>>
    /\ response = <<>>
    /\ outcome = Pending
    /\ upload_pc = "idle"
    /\ upload_call = <<>>
    /\ upload_locals = <<>>
    /\ upload_log = <<>>
    /\ upload_outcome = Pending
    /\ threads = <<>>
    /\ method_pc = "idle"
    /\ method_call = <<>>
    /\ method_locals = <<>>
    /\ method_log = <<>>
    /\ method_outcome = Pending
    /\ other_client = None

Next ==
    \/ \E a \in Args : request(a)
    \/ \E r \in Responses : respond(r)
    \/ finish

Spec == Init /\ [][Next]_vars

---------------------------------------------------------------------------
(* HTTPClient.upload: INIT, APPEND, FINALIZE and the STATUS polls *)

\* open_file.read(4 * 1024 * 1024)
SEGMENT_SIZE == 4194304

\* how many whole segments a file of the model may hold
MaxSegments == 2

Sizes ==
    {k * SEGMENT_SIZE : k \in 0..MaxSegments}
    \cup {k * SEGMENT_SIZE + 1 : k \in 0..(MaxSegments - 1)}

\* a File: its declared total_bytes, and its source: the bytes it holds (size)
\* and the position the reader is at when upload() gets it (start)
Files == [total_bytes : Sizes, size : Sizes, start : {0, 1}]

\* the files whose source holds the declared bytes and is read from its start
WholeFiles == {f \in Files : f.size = f.total_bytes /\ f.start = 0}

MediaIds == {None, MEDIA_ID}

UploadCalls ==
    [command : {"INIT", "FINALIZE", "STATUS"}, file : WholeFiles, media_id : MediaIds]
    \cup [command : {"APPEND"}, file : Files, media_id : MediaIds]

Min(a, b) == IF a <= b THEN a ELSE b

\* the bytes open_file.read(n) returns with the reader at pos: none at or past the end
read_length(file, pos, n) == IF pos >= file.size THEN 0 ELSE Min(n, file.size - pos)

\* time.sleep(seconds) in CheckStatus
Pause(secs) == [ev |-> "sleep", secs |-> secs]

\* a response came back to a request() call of upload()
Received(resp) == [ev |-> "response", resp |-> resp]

\* what one request() call did, in order: the send, its response, and for a
\* re-sent request the sleep, the second send and its response
call_events(w, rs) ==
    IF Len(rs) = 0 THEN w
    ELSE <<w[1], Received(rs[1])>>
         \o SubSeq(w, 2, Len(w))
         \o [i \in 1..(Len(rs) - 1) |-> Received(rs[i + 1])]

upload_request(method, path, params, data, files) ==
    [method |-> method,
     version |-> None,
     path |-> path,
     use_base_url |-> FALSE,
     headers |-> "default",
     params |-> params,
     json |-> EmptyDict,
     data |-> data,
     files |-> files,
     auth |-> TRUE,
     is_json |-> TRUE]

init_request(file) ==
    upload_request("POST", upload_url, EmptyDict,
                   Dict([command |-> "INIT", media_type |-> <<"mimetype">>,
                         total_bytes |-> file.total_bytes,
                         media_category |-> <<"media_category">>,
                         shared |-> <<"dm_only">>]),
                   EmptyDict)

append_request(file, media_id, segment_id, pos) ==
    upload_request("POST", upload_url, EmptyDict,
                   Dict([command |-> "APPEND", media_id |-> media_id,
                         segment_index |-> segment_id]),
                   Dict([media |-> [offset |-> pos,
                                    length |-> read_length(file, pos, SEGMENT_SIZE)]]))

finalize_request(media_id) ==
    upload_request("POST", upload_url, EmptyDict,
                   Dict([command |-> "FINALIZE", media_id |-> media_id]),
                   EmptyDict)

status_request(media_id) ==
    upload_request("GET", base_url,
                   Dict([command |-> "STATUS", media_id |-> media_id]),
                   EmptyDict, EmptyDict)

\* return res["media_id"]
init_result(o) ==
    IF o.kind = "raise" THEN o
    ELSE IF o.value.t # "dict"
      THEN Raise("TypeError", Str(<<o.value.t, "object is not subscriptable by str">>))
    ELSE IF "media_id" \notin DOMAIN o.value.v
      THEN Raise("KeyError", Str(<<"media_id">>))
    ELSE Return(o.value.v["media_id"])

Poll(secs) == [kind |-> "poll", secs |-> secs]

\* CheckStatus up to its time.sleep; info is <<>> for None, <<processing_info>> otherwise
CheckStatus(info) ==
    IF Len(info) = 0 \/ DOMAIN info[1] = {}
      THEN Return(None)
    ELSE IF "state" \notin DOMAIN info[1]
      THEN Raise("KeyError", Str(<<"state">>))
    ELSE IF "check_after_secs" \notin DOMAIN info[1]
      THEN Return(None)
    ELSE IF info[1]["state"] = "succeeded"
      THEN Return(None)
    ELSE IF info[1]["state"] = "failed"
      THEN Raise("PytweetException", Str(<<"Failed to finalize Media!">>))
    ELSE Poll(info[1]["check_after_secs"])

\* CheckStatus(res.get("processing_info", None), media_id) on what request() gave
check_result(o) ==
    IF o.kind = "raise" THEN o
    ELSE IF o.value.t # "dict"
      THEN Raise("AttributeError", Str(<<"get">>))
    ELSE CheckStatus(IF "processing_info" \in DOMAIN o.value.v
                       THEN <<o.value.v["processing_info"]>>
                       ELSE <<>>)

\* an APPEND that does not look at media_id
media_id_check_skipped(media_id) == Normal

\* if not media_id: raise ValueError
media_id_check(media_id) ==
    IF media_id = None
      THEN Raise("ValueError", Str(<<"'media_id' is None! Please specified it.">>))
      ELSE Normal

\* upload() ends: request() is left and the result goes to the caller
upload_ends(o, log) ==
    /\ upload_outcome' = o
    /\ upload_log' = log
    /\ upload_pc' = "done"
    /\ pc' = "idle"
    /\ args' = <<>>
    /\ wire' = <<>>
    /\ response' = <<>>
    /\ outcome' = Pending
    /\ UNCHANGED <<credentials, auth_session, default_headers>>

\* upload() calls self.request(...)
upload_calls(a, log) ==
    /\ send_request(a)
    /\ upload_log' = log
    /\ upload_pc' = "calling"
    /\ upload_outcome' = Pending

\* one turn of "while bytes_sent < file.total_bytes": read a segment and send it
append_loop(c, locals, log) ==
    IF locals.bytes_sent < c.file.total_bytes
      THEN /\ upload_locals' =
                [locals EXCEPT !.position =
                    @ + read_length(c.file, @, SEGMENT_SIZE)]
           /\ upload_calls(append_request(c.file, c.media_id, locals.segment_id,
                                          locals.position), log)
      ELSE /\ upload_locals' = locals
           /\ upload_ends(Return(None), log)

\* upload(file, command, media_id=...) from its entry to its first request()
start_upload(c) ==
    /\ upload_call' = c
    /\ LET locals == [phase |-> c.command, segment_id |-> 0, bytes_sent |-> 0,
                      position |-> c.file.start]
       IN
       IF c.command = "INIT"
         THEN /\ upload_locals' = locals
              /\ upload_calls(init_request(c.file), <<>>)
       ELSE IF c.command = "APPEND"
         THEN IF media_id_check(c.media_id).kind = "raise"
                THEN /\ upload_locals' = locals
                     /\ upload_ends(media_id_check(c.media_id), <<>>)
                ELSE append_loop(c, locals, <<>>)
       ELSE IF c.command = "FINALIZE"
         THEN /\ upload_locals' = locals
              /\ upload_calls(finalize_request(c.media_id), <<>>)
       ELSE /\ upload_locals' = locals
            /\ upload_ends(Return(None), <<>>)

\* a caller other than post_tweet() and send_message() calls upload()
upload(c) ==
    /\ upload_pc = "idle"
    /\ pc = "idle"
    /\ method_pc = "idle"
    /\ start_upload(c)
    /\ UNCHANGED <<threads, method_vars, other_client>>

\* request() has ended and upload() goes on, to its end or to its next request()
upload_resume ==
    /\ upload_pc = "calling"
    /\ pc = "done"
    /\ UNCHANGED <<upload_call, threads, method_vars, other_client>>
    /\ LET log == upload_log \o call_events(wire, response) IN
       IF upload_locals.phase = "INIT"
         THEN /\ UNCHANGED upload_locals
              /\ upload_ends(init_result(outcome), log)
       ELSE IF upload_locals.phase = "APPEND"
         THEN IF outcome.kind = "raise"
                THEN /\ UNCHANGED upload_locals
                     /\ upload_ends(outcome, log)
                ELSE append_loop(upload_call,
                                 [upload_locals EXCEPT
                                    !.bytes_sent = upload_locals.position,
                                    !.segment_id = @ + 1],
                                 log)
       ELSE
         LET r == check_result(outcome) IN
         IF r.kind = "poll"
           THEN /\ upload_locals' = [upload_locals EXCEPT !.phase = "STATUS"]
                /\ upload_calls(status_request(upload_call.media_id),
                                Append(log, Pause(r.secs)))
           ELSE /\ UNCHANGED upload_locals
                \* upload() returns nothing after CheckStatus
                /\ upload_ends(IF r.kind = "raise" THEN r ELSE Return(None), log)

\* the caller has upload()'s result
upload_returns ==
    /\ upload_pc = "done"
    /\ method_pc = "idle"
    /\ upload_pc' = "idle"
    /\ upload_call' = <<>>
    /\ upload_locals' = <<>>
    /\ upload_log' = <<>>
    /\ upload_outcome' = Pending
    /\ UNCHANGED <<request_vars, threads, method_vars, other_client>>

NextUpload ==
    \/ \E c \in UploadCalls : upload(c)
    \/ \E r \in Responses : respond(r)
    \/ upload_resume
    \/ upload_returns

SpecUpload == Init /\ [][NextUpload]_vars

---------------------------------------------------------------------------
(* What the claims speak of *)

IsSend(e) == e.ev = "send"
IsSleep(e) == e.ev = "sleep"
Sends == SelectSeq(wire, IsSend)
Sleeps == SelectSeq(wire, IsSleep)

Done == pc = "done"
Answered == Done /\ Len(response) >= 1
FirstStatus == response[1].status_code
FirstBody == response[1].text.document

Returned == outcome.kind = "return"
Raised(e) == outcome.kind = "raise" /\ outcome.exc = e

OAuthNames == {CredentialNames[i] : i \in 2..Len(CredentialNames)}

Max(a, b) == IF a >= b THEN a ELSE b

SuccessStatuses == {200, 201, 202, 204}

TypedError(code) ==
    CASE code = 400 -> "BadRequests"
      [] code = 401 -> "Unauthorized"
      [] code = 403 -> "Forbidden"
      [] code = 404 -> "NotFound"
      [] code = 409 -> "Conflict"
      [] code = 429 -> "TooManyRequests"
      [] OTHER -> "PytweetException"

RetryDue ==
    /\ Answered
    /\ FirstStatus = 429
    /\ RATE_LIMIT_RESET \in DOMAIN response[1].headers
    /\ response[1].headers[RATE_LIMIT_RESET] = MaxEpoch

KnownStatuses == {200, 201, 202, 204, 400, 401, 403, 404, 409, 429}

ClassifiedErrors ==
    {"PytweetException", "BadRequests", "Unauthorized", "Forbidden", "NotFound",
     "NotFoundError", "Conflict", "TooManyRequests", "SyntaxError"}

MatchesKnownError(first) ==
    \/ "detail" \in DOMAIN first /\ StartsWith(first["detail"], COULD_NOT_FIND)
    \/ /\ "details" \in DOMAIN first
       /\ Len(first["details"]) > 0
       /\ StartsWith(first["details"][1], CANNOT_PARSE_RULE)

HasErrors(doc) ==
    /\ doc.t = "dict"
    /\ "errors" \in DOMAIN doc.v
    /\ Len(doc.v["errors"]) > 0

---------------------------------------------------------------------------
---------------------------------------------------------------------------
(* C2: the response to the re-issued request is classified like a first    *)
(* response: after a first 429 whose reset time is not in the past the      *)
(* request is re-issued, a 429 on the retry is raised as the rate-limit     *)
(* error, an error status on the retry is raised as its typed error, and a  *)
(* value is returned only for a success status on the retry.                *)
C2_RetryClassified ==
    RetryDue =>
        /\ Len(response) = 2
        /\ response[2].status_code \notin SuccessStatuses =>
              Raised(TypedError(response[2].status_code))
        /\ Returned => response[2].status_code \in SuccessStatuses

(* C3: a first response whose status is none of 200, 201, 202, 204, 400,   *)
(* 401, 403, 404, 409, 429 ends the call with the unknown-status error and  *)
(* never with a returned body.                                              *)
C3_UnknownStatusRaises ==
    (Answered /\ FirstStatus \notin KnownStatuses) =>
        /\ ~Returned
        /\ Raised("PytweetException")

(* C4: every invocation ends by returning a value or by raising one of the *)
(* library's classified errors, never an AttributeError, KeyError,          *)
(* IndexError or another runtime failure.                                   *)
C4_EndsClassified ==
    Done => (Returned \/ (outcome.kind = "raise" /\ outcome.exc \in ClassifiedErrors))

(* C5: after a first 429 carrying x-rate-limit-reset the call sleeps once, *)
(* for max(0, reset - now) + 1 seconds, which is at least 1 second.         *)
C5_SleepAtLeastOne ==
    (Answered /\ FirstStatus = 429 /\ RATE_LIMIT_RESET \in DOMAIN response[1].headers) =>
        /\ Len(Sleeps) = 1
        /\ Sleeps[1].secs = Max(0, response[1].headers[RATE_LIMIT_RESET] - Sleeps[1].at) + 1
        /\ Sleeps[1].secs >= 1

(* C6: a call with auth=True on a client lacking one of the four OAuth1    *)
(* credentials ends with an error naming a credential that is None, with no *)
(* request sent; every request a call with auth=True sends carries the      *)
(* OAuth1 signer of the client's credentials.                               *)
C6_NoUnsignedAuthRequest ==
    (pc # "idle" /\ args.auth) =>
        /\ (\E k \in OAuthNames : credentials[k] = None) =>
              /\ Done
              /\ Raised("PytweetException")
              /\ credentials[outcome.arg.v[1]] = None
              /\ wire = <<>>
        /\ \A i \in 1..Len(Sends) :
              Sends[i].req.auth = oauth1(OauthSession(credentials))

C6_Witness ==
    /\ Done
    /\ args.auth
    /\ credentials["access_token_secret"] = None
    /\ Raised("PytweetException")
    /\ outcome.arg.v[1] = "access_token_secret"
    /\ Len(Sends) = 0

(* C7: a 200 response whose errors array is non-empty and whose first      *)
(* entry matches neither "Could not find" nor "Cannot parse rule" ends the  *)
(* call with the generic client error, not with a returned body.            *)
C7_OtherErrorsRaiseGeneric ==
    (Answered /\ FirstStatus = 200 /\ HasErrors(FirstBody)
        /\ ~MatchesKnownError(FirstBody.v["errors"][1])) =>
        /\ ~Returned
        /\ Raised("PytweetException")

(* C8: a 200 response whose body is no JSON, with a JSON response          *)
(* requested, ends the call with a library error, not with a value.         *)
C8_UnparsableBodyRaises ==
    (Answered /\ FirstStatus = 200 /\ FirstBody = Invalid /\ args.is_json) =>
        /\ ~Returned
        /\ outcome.kind = "raise"
        /\ outcome.exc \in ClassifiedErrors

(* C9: a 200 response whose first errors entry has a detail starting with  *)
(* "Could not find" ends the call with the not-found error and never with a *)
(* returned body, whatever else the body holds.                             *)
C9_CouldNotFindRaises ==
    (Answered /\ FirstStatus = 200 /\ HasErrors(FirstBody)
        /\ "detail" \in DOMAIN FirstBody.v["errors"][1]
        /\ StartsWith(FirstBody.v["errors"][1]["detail"], COULD_NOT_FIND)) =>
        /\ ~Returned
        /\ Raised("NotFoundError")

(* C10: a first response of status 400, 401, 403, 404 or 409 ends the call *)
(* with BadRequests, Unauthorized, Forbidden, NotFound or Conflict carrying *)
(* the raw response, after exactly one send.                                *)
C10_ErrorStatusRaisesTyped ==
    (Answered /\ FirstStatus \in {400, 401, 403, 404, 409}) =>
        /\ Raised(TypedError(FirstStatus))
        /\ outcome.arg = response[1]
        /\ Len(Sends) = 1
        /\ Len(response) = 1

(* C11: a first response of status 201, 202 or 204 makes the call return   *)
(* None, whatever the body holds, after one send and without raising.       *)
C11_EmptySuccessReturnsNone ==
    (Answered /\ FirstStatus \in {201, 202, 204}) =>
        /\ outcome = Return(None)
        /\ Len(response) = 1

\* a JSON object without errors whose meta.result_count is 0
ZeroCount(doc) ==
    /\ doc.t = "dict"
    /\ "errors" \notin DOMAIN doc.v
    /\ "meta" \in DOMAIN doc.v
    /\ "result_count" \in DOMAIN doc.v["meta"]
    /\ doc.v["meta"]["result_count"] = 0

(* C12: a 200 response whose body is a JSON object without errors and with *)
(* meta.result_count = 0 makes the call (is_json as by default) return the  *)
(* empty list: no error, not None, not the decoded body.                    *)
C12_ZeroCountReturnsEmptyList ==
    (Answered /\ FirstStatus = 200 /\ ZeroCount(FirstBody) /\ args.is_json) =>
        outcome = Return(List(<<>>))

(* C13: every request sent has at most one of json and data populated;     *)
(* when the caller passes both non-empty, data is sent and json is None.    *)
C13_OneBodyChannel ==
    \A i \in 1..Len(Sends) :
        /\ ~(Truthy(Sends[i].req.json) /\ Truthy(Sends[i].req.data))
        /\ (Truthy(args.json) /\ Truthy(args.data)) =>
              /\ Sends[i].req.data = args.data
              /\ Sends[i].req.json = None

C13_Witness ==
    /\ Len(Sends) = 1
    /\ Truthy(args.json) /\ Truthy(args.data)
    /\ Sends[1].req.data = Payload
    /\ Sends[1].req.json = None

---------------------------------------------------------------------------
(* Callers that run HTTPClient.request at once on one client.  A step is   *)
(* one read or one write of what the callers share: self._auth and the      *)
(* dict bound to the default headers={}.  What a caller does to its own     *)
(* locals belongs to the step that follows.                                 *)

Threads == {1, 2}

ThreadArgs == {a \in Args : a.is_json /\ a.json = EmptyDict}

ThreadResponses ==
    {r \in Responses :
        /\ r.status_code \in {200, 404, 429}
        /\ r.text.document = Dict(MakeObject(<<>>, <<>>))
        /\ r.headers # [k \in {RATE_LIMIT_RESET} |-> 0]}

\* the dict object a caller's headers parameter is bound to, as it is now
thread_headers(th, defaults) ==
    IF th.args.headers = "default" THEN defaults ELSE th.headers

\* headers[key] = value, on the shared default dict or on the caller's own
thread_set_header(t, key, value, next) ==
    LET th == threads[t] IN
    IF th.args.headers = "default"
      THEN /\ default_headers' = SetItem(default_headers, key, value)
           /\ threads' = [threads EXCEPT ![t].pc = next]
      ELSE /\ default_headers' = default_headers
           /\ threads' = [threads EXCEPT ![t].pc = next,
                                         ![t].headers = SetItem(th.headers, key, value)]

\* request(...) is entered: url is computed and self._auth is tested
thread_call(t, a) ==
    /\ t \notin DOMAIN threads
    /\ threads' = threads @@ (t :> [pc |-> IF auth_session = None THEN "auth" ELSE "headers",
                                    args |-> a,
                                    url |-> build_url(a),
                                    headers |-> IF a.headers = "default"
                                                  THEN <<>> ELSE CallerHeaders[a.headers],
                                    auth |-> PyFalse,
                                    sent |-> <<>>,
                                    response |-> <<>>,
                                    outcome |-> Pending])
    /\ UNCHANGED <<request_vars, upload_vars, method_vars, other_client>>

\* self._auth = auth_session
thread_auth(t) ==
    /\ t \in DOMAIN threads
    /\ threads[t].pc = "auth"
    /\ auth_session' = OauthSession(credentials)
    /\ threads' = [threads EXCEPT ![t].pc = "headers"]
    /\ UNCHANGED <<credentials, default_headers, pc, args, wire, response, outcome>>
    /\ UNCHANGED <<upload_vars, method_vars, other_client>>

\* if "Authorization" not in headers.keys()
thread_headers_test(t) ==
    /\ t \in DOMAIN threads
    /\ threads[t].pc = "headers"
    /\ threads' = [threads EXCEPT ![t].pc =
                      IF "Authorization" \in DOMAIN thread_headers(threads[t], default_headers)
                        THEN "user_agent" ELSE "authorization"]
    /\ UNCHANGED <<request_vars, upload_vars, method_vars, other_client>>

\* headers["Authorization"] = f"Bearer {self.bearer_token}"
thread_authorization(t) ==
    /\ t \in DOMAIN threads
    /\ threads[t].pc = "authorization"
    /\ thread_set_header(t, "Authorization", <<"Bearer", credentials["bearer_token"]>>,
                         "user_agent")
    /\ UNCHANGED <<credentials, auth_session, pc, args, wire, response, outcome>>
    /\ UNCHANGED <<upload_vars, method_vars, other_client>>

\* headers["User-Agent"] = ...
thread_user_agent(t) ==
    /\ t \in DOMAIN threads
    /\ threads[t].pc = "user_agent"
    /\ thread_set_header(t, "User-Agent", user_agent, "credentials")
    /\ UNCHANGED <<credentials, auth_session, pc, args, wire, response, outcome>>
    /\ UNCHANGED <<upload_vars, method_vars, other_client>>

\* if auth: the loop over self.credentials, then auth = self._auth.oauth1
thread_credentials(t) ==
    /\ t \in DOMAIN threads
    /\ threads[t].pc = "credentials"
    /\ LET check == credential_check(threads[t].args, credentials) IN
       threads' = [threads EXCEPT ![t] =
           IF check.kind = "raise"
             THEN [@ EXCEPT !.pc = "done", !.outcome = check]
             ELSE [@ EXCEPT !.pc = "send",
                            !.auth = IF threads[t].args.auth
                                       THEN oauth1(auth_session) ELSE PyFalse]]
    /\ UNCHANGED <<request_vars, upload_vars, method_vars, other_client>>

\* the arguments of this caller's self.__session.request(...)
thread_prepared(th, defaults) ==
    [method |-> Upper(th.args.method),
     url |-> th.url,
     headers |-> thread_headers(th, defaults),
     params |-> th.args.params,
     data |-> data_sent(th.args),
     json |-> json_sent(th.args),
     files |-> th.args.files,
     auth |-> th.auth]

\* if data / if json, method.upper() and the send
thread_send(t) ==
    /\ t \in DOMAIN threads
    /\ threads[t].pc = "send"
    /\ threads' = [threads EXCEPT
                      ![t].pc = "sent",
                      ![t].sent = transmit(<<>>, thread_prepared(threads[t], default_headers))]
    /\ UNCHANGED <<request_vars, upload_vars, method_vars, other_client>>

\* the caller's request() ends
thread_complete(t, rs, o, evs) ==
    /\ threads' = [threads EXCEPT ![t].pc = "done", ![t].response = rs,
                                  ![t].outcome = o, ![t].sent = evs]
    /\ UNCHANGED <<request_vars, upload_vars, method_vars, other_client>>

\* the caller's response arrives and its request() runs to its end
thread_respond(t, r1) ==
    /\ t \in DOMAIN threads
    /\ threads[t].pc = "sent"
    /\ LET th == threads[t]
           code == status_read(r1)
       IN
       IF code.kind = "raise"
         THEN thread_complete(t, <<r1>>, code, th.sent)
         ELSE
           LET c == classify(code.value, r1) IN
           IF c.kind = "fallthrough"
             THEN thread_complete(t, <<r1>>, decode(r1, th.args.is_json), th.sent)
           ELSE IF c.kind # "ratelimited"
             THEN thread_complete(t, <<r1>>, c, th.sent)
           ELSE
             \E now \in 0..MaxEpoch :
               LET w == rate_limit_wait(r1, now) IN
               IF w.kind = "raise"
                 THEN thread_complete(t, <<r1>>, w, th.sent)
                 ELSE \E r2 \in ThreadResponses :
                        thread_complete(t, <<r1, r2>>, decode(r2, th.args.is_json),
                                        transmit(Append(th.sent, Sleep(w.secs, now)),
                                                 th.sent[1].req))

NextConcurrent ==
    \E t \in Threads :
        \/ \E a \in ThreadArgs : thread_call(t, a)
        \/ thread_auth(t)
        \/ thread_headers_test(t)
        \/ thread_authorization(t)
        \/ thread_user_agent(t)
        \/ thread_credentials(t)
        \/ thread_send(t)
        \/ \E r \in ThreadResponses : thread_respond(t, r)

SpecConcurrent == Init /\ [][NextConcurrent]_vars

---------------------------------------------------------------------------
(* What the claim about callers at once speaks of *)

\* what the caller's call sends when it runs alone on the client
OwnRequest(th) ==
    prepared(th.args, fill_headers(headers_object(th.args, <<>>), credentials["bearer_token"]),
             OauthSession(credentials))

\* what lines 233-287 make of a response that is not answered 429
OwnClassification(th) ==
    LET r == th.response[1]
        c == classify(r.status_code, r)
    IN  IF c.kind = "fallthrough" THEN decode(r, th.args.is_json) ELSE c

\* every request sent so far is the one its caller's own call sends alone
OwnRequestsOnly ==
    \A t \in DOMAIN threads :
        \A i \in 1..Len(threads[t].sent) :
            IsSend(threads[t].sent[i]) => threads[t].sent[i].req = OwnRequest(threads[t])

(* C14: when two callers run request() at once on one client, every       *)
(* request sent is the one the caller's own call sends alone (URL,          *)
(* headers, params, body, signing), and a caller whose response is not a    *)
(* 429 ends with the classification of its own response.                    *)
C14_OwnRequestOwnResult ==
    /\ OwnRequestsOnly
    /\ \A t \in DOMAIN threads :
          (threads[t].pc = "done" /\ Len(threads[t].response) = 1
              /\ threads[t].response[1].status_code # 429) =>
              threads[t].outcome = OwnClassification(threads[t])

---------------------------------------------------------------------------
(* What the claims about upload() speak of *)

UploadEvents == upload_log \o call_events(wire, response)
IsReceived(e) == e.ev = "response"
UploadSends == SelectSeq(UploadEvents, IsSend)
UploadReceived == SelectSeq(UploadEvents, IsReceived)
UploadDone == upload_pc = "done"
UploadOf(command) == upload_pc # "idle" /\ upload_call.command = command
AllCredentials == missing_credentials(credentials) = {}

Ceil(n, d) == (n + d - 1) \div d

IsPoll(e) ==
    /\ IsSend(e)
    /\ e.req.method = "GET"
    /\ "command" \in DOMAIN e.req.params.v
    /\ e.req.params.v["command"] = "STATUS"

\* the processing_info of a 200 response of the upload endpoint: <<>> when it has none
ReportOf(resp) ==
    IF /\ resp.status_code = 200
       /\ resp.text.document \in UploadDocuments
       /\ "processing_info" \in DOMAIN resp.text.document.v
      THEN <<resp.text.document.v["processing_info"]>>
      ELSE <<>>

ReportsState(resp, states) ==
    Len(ReportOf(resp)) = 1 /\ ReportOf(resp)[1]["state"] \in states

\* the server answers upload()'s requests with 200 and bodies of the upload endpoint
ServerReports ==
    \A i \in 1..Len(UploadReceived) :
        /\ UploadReceived[i].resp.status_code = 200
        /\ UploadReceived[i].resp.text.document \in UploadDocuments

---------------------------------------------------------------------------
(* C15: APPEND of a file of N bytes, read from position 0 with N declared, *)
(* ends after exactly ceil(N / 4 MiB) APPEND requests with segment_index    *)
(* 0, 1, ... in order, and with bytes_sent = N.                             *)
C15_AppendSendsEverySegment ==
    (UploadDone /\ UploadOf("APPEND") /\ AllCredentials /\ ServerReports
        /\ upload_call.media_id # None /\ upload_call.file \in WholeFiles) =>
        /\ upload_outcome = Return(None)
        /\ Len(UploadSends) = Ceil(upload_call.file.total_bytes, SEGMENT_SIZE)
        /\ \A i \in 1..Len(UploadSends) :
              UploadSends[i].req.data.v["segment_index"] = i - 1
        /\ upload_locals.bytes_sent = upload_call.file.total_bytes

(* C16: when the FINALIZE response or a STATUS response reports the state  *)
(* failed, upload FINALIZE ends with the upload error, whatever else the    *)
(* report holds.                                                            *)
C16_FailedStateRaises ==
    (UploadDone /\ UploadOf("FINALIZE") /\ AllCredentials
        /\ \E i \in 1..Len(UploadReceived) :
              ReportsState(UploadReceived[i].resp, {"failed"})) =>
        /\ upload_outcome.kind = "raise"
        /\ upload_outcome.exc = "PytweetException"

(* C17: when the server answers FINALIZE and each poll with a report,      *)
(* upload FINALIZE ends only after a terminal report, having sent one       *)
(* STATUS poll per pending or in_progress report, each right after a sleep  *)
(* of that report's check_after_secs.                                       *)
C17_OnePollPerPendingReport ==
    (UploadDone /\ UploadOf("FINALIZE") /\ AllCredentials /\ ServerReports) =>
        /\ Cardinality({i \in 1..Len(UploadEvents) : IsPoll(UploadEvents[i])})
             = Cardinality({i \in 1..Len(UploadReceived) :
                              ReportsState(UploadReceived[i].resp,
                                           {"pending", "in_progress"})})
        /\ \A i \in 1..Len(UploadEvents) :
              IsPoll(UploadEvents[i]) =>
                  /\ i >= 3
                  /\ IsSleep(UploadEvents[i - 1])
                  /\ IsReceived(UploadEvents[i - 2])
                  /\ ReportsState(UploadEvents[i - 2].resp, {"pending", "in_progress"})
                  /\ UploadEvents[i - 1].secs =
                        ReportOf(UploadEvents[i - 2].resp)[1]["check_after_secs"]

(* C18: when the FINALIZE response has no processing_info, or one whose    *)
(* state is succeeded, upload FINALIZE returns without a sleep and without  *)
(* a STATUS poll.                                                           *)
C18_NoPollWhenReady ==
    (UploadDone /\ UploadOf("FINALIZE") /\ AllCredentials /\ ServerReports
        /\ Len(UploadReceived) >= 1
        /\ \/ Len(ReportOf(UploadReceived[1].resp)) = 0
           \/ ReportsState(UploadReceived[1].resp, {"succeeded"})) =>
        /\ upload_outcome = Return(None)
        /\ Len(UploadSends) = 1
        /\ \A i \in 1..Len(UploadEvents) : ~IsSleep(UploadEvents[i])

\* a 200 response whose body is a JSON object with a media_id
HasMediaId(resp) ==
    /\ resp.status_code = 200
    /\ resp.text.document.t = "dict"
    /\ "media_id" \in DOMAIN resp.text.document.v

(* C19: upload INIT returns the media_id of the INIT response when it has  *)
(* one and ends with the upload error when request() gives a result         *)
(* without one; it never returns an absent identifier.                      *)
C19_InitReturnsMediaId ==
    (UploadDone /\ UploadOf("INIT") /\ AllCredentials
        /\ Len(UploadReceived) = 1
        /\ UploadReceived[1].resp.status_code \in SuccessStatuses) =>
        /\ upload_outcome # Return(None)
        /\ IF HasMediaId(UploadReceived[1].resp)
             THEN upload_outcome = Return(UploadReceived[1].resp.text.document.v["media_id"])
             ELSE /\ upload_outcome.kind = "raise"
                  /\ upload_outcome.exc = "PytweetException"

(* C20: upload APPEND without a media_id ends with ValueError, with no     *)
(* request sent and the source's reader where it was.                       *)
C20_AppendNeedsMediaId ==
    (UploadOf("APPEND") /\ upload_call.media_id = None) =>
        /\ UploadDone
        /\ upload_outcome.kind = "raise"
        /\ upload_outcome.exc = "ValueError"
        /\ UploadEvents = <<>>
        /\ upload_locals.position = upload_call.file.start

C20_Witness ==
    /\ UploadDone
    /\ UploadOf("APPEND")
    /\ upload_call.media_id = None
    /\ upload_call.file.total_bytes > SEGMENT_SIZE
    /\ upload_outcome.kind = "raise"
    /\ upload_outcome.exc = "ValueError"
    /\ Len(UploadSends) = 0

---------------------------------------------------------------------------
(* Methods of HTTPClient, Tweet and User that call request() or upload()   *)

\* an object of the library: its class and what its constructor was given
Object(class, data) == [t |-> class, data |-> data]

\* the method has ended: the caller has its result or its exception
method_ends(o, log) ==
    /\ method_outcome' = o
    /\ method_log' = log
    /\ method_pc' = "done"
    /\ pc' = "idle"
    /\ args' = <<>>
    /\ wire' = <<>>
    /\ response' = <<>>
    /\ outcome' = Pending
    /\ upload_pc' = "idle"
    /\ upload_call' = <<>>
    /\ upload_locals' = <<>>
    /\ upload_log' = <<>>
    /\ upload_outcome' = Pending
    /\ UNCHANGED <<credentials, auth_session, default_headers>>

\* the method calls self.request(...)
method_calls_request(a, log) ==
    /\ send_request(a)
    /\ method_log' = log
    /\ method_pc' = "request"
    /\ method_outcome' = Pending
    /\ upload_pc' = "idle"
    /\ upload_call' = <<>>
    /\ upload_locals' = <<>>
    /\ upload_log' = <<>>
    /\ upload_outcome' = Pending

\* the method calls self.upload(...)
method_calls_upload(c, log) ==
    /\ start_upload(c)
    /\ method_log' = log
    /\ method_pc' = "upload"
    /\ method_outcome' = Pending

---------------------------------------------------------------------------
(* Tweet.author *)

\* how many users includes.users may hold
MaxUsers == 2

UserIds == 1..(MaxUsers + 1)

\* includes.users: user objects with distinct ids, in any order
UserLists ==
    UNION {{u \in [1..n -> [id : UserIds]] :
                \A i, j \in 1..n : u[i].id = u[j].id => i = j} : n \in 0..MaxUsers}

\* the payloads Tweet.__init__ is given: "data" and, when present, "includes"
TweetPayloads ==
    {[data |-> [id |-> 10, author_id |-> a]] : a \in 1..2}
    \cup {[data |-> [id |-> 10, author_id |-> a], includes |-> [media |-> <<>>]] : a \in 1..2}
    \cup {[data |-> [id |-> 10, author_id |-> a], includes |-> [users |-> u]] :
              a \in 1..2, u \in UserLists}

\* self._includes = self.__original_payload.get("includes")
tweet_includes(payload) ==
    IF "includes" \in DOMAIN payload THEN <<payload["includes"]>> ELSE <<>>

\* Tweet.author: if self._includes and self._includes.get("users"): User(users[0])
author(payload) ==
    LET inc == tweet_includes(payload) IN
    IF /\ Len(inc) = 1
       /\ DOMAIN inc[1] # {}
       /\ "users" \in DOMAIN inc[1]
       /\ Len(inc[1]["users"]) > 0
      THEN Return(Object("User", inc[1]["users"][1]))
      ELSE Return(None)

AuthorCalls == [name : {"author"}, tweet : TweetPayloads]

---------------------------------------------------------------------------
(* Methods that make one request() call *)

PyTrue == [t |-> "bool", v |-> TRUE]

\* bool(x) of what request() returns
PyTruthy(x) ==
    CASE x.t = "NoneType" -> FALSE
      [] x.t \in {"dict", "list"} -> DOMAIN x.v # {}
      [] OTHER -> TRUE

\* self.request(method, version, path, headers=..., params=..., json=..., auth=...)
api_request(method, version, path, headers, params, json, auth) ==
    [method |-> method,
     version |-> <<version>>,
     path |-> path,
     use_base_url |-> TRUE,
     headers |-> headers,
     params |-> params,
     json |-> json,
     data |-> EmptyDict,
     files |-> EmptyDict,
     auth |-> auth,
     is_json |-> TRUE]

\* the id of the Tweet or User the method is called on
OBJECT_ID == <<"10">>

\* Tweet.hide: json={"hidden": False}
hide_request(id) ==
    api_request("PUT", "2", <<"/tweets/">> \o id \o <<"/hidden">>, "default", EmptyDict,
                Dict([hidden |-> PyFalse]), TRUE)

\* Tweet.unhide: json={"hidden": False}
unhide_request(id) ==
    api_request("PUT", "2", <<"/tweets/">> \o id \o <<"/hidden">>, "default", EmptyDict,
                Dict([hidden |-> PyFalse]), TRUE)

HideCalls == [name : {"hide", "unhide"}, id : {OBJECT_ID}]

\* RelationHide(res), User(data), Tweet(res): the constructor reads its argument with .get
construct(class, o) ==
    IF o.kind = "raise" THEN o
    ELSE IF o.value.t = "dict" THEN Return(Object(class, o.value))
    ELSE Raise("AttributeError", Str(<<"get">>))

---------------------------------------------------------------------------
(* HTTPClient.fetch_user, fetch_user_byname, fetch_tweet *)

USER_PARAMS == Dict([k \in {"user.fields"} |-> <<"USER_FIELD">>])

TWEET_PARAMS ==
    Dict([k \in {"tweet.fields", "user.fields", "expansions", "media.fields",
                 "place.fields", "poll.fields"} |->
            CASE k = "tweet.fields" -> <<"TWEET_FIELD">>
              [] k = "user.fields" -> <<"USER_FIELD">>
              [] k = "expansions" -> <<"TWEET_EXPANSION">>
              [] k = "media.fields" -> <<"MEDIA_FIELD">>
              [] k = "place.fields" -> <<"PLACE_FIELD">>
              [] OTHER -> <<"POLL_FIELD">>])

\* the ids callers pass: a string of digits and a string that int() rejects
IdArguments == {<<"123">>, <<"abc">>}
Digits == {<<"123">>, <<"10">>}

\* int(user_id)
int_check(id) ==
    IF id \in Digits THEN Normal
    ELSE Raise("ValueError", Str(<<"user_id must be an int, or a string of digits!">>))

\* f"Bearer {self.bearer_token}" as the caller's own headers dict
bearer_headers(c) == IF c["bearer_token"] = None THEN "bearer_none" ELSE "bearer"

\* username.replace("@", "", 1)
strip_at(username) ==
    IF \E i \in 1..Len(username) : username[i] = "@"
      THEN LET i == CHOOSE i \in 1..Len(username) :
                        /\ username[i] = "@"
                        /\ \A j \in 1..(i - 1) : username[j] # "@"
           IN  SubSeq(username, 1, i - 1) \o SubSeq(username, i + 1, Len(username))
      ELSE username

fetch_user_request(user_id, c) ==
    api_request("GET", "2", <<"/users/">> \o user_id, bearer_headers(c), USER_PARAMS,
                EmptyDict, FALSE)

fetch_user_byname_request(username, c) ==
    api_request("GET", "2", <<"/users/by/username/">> \o strip_at(username),
                bearer_headers(c), USER_PARAMS, EmptyDict, FALSE)

fetch_tweet_request(tweet_id) ==
    api_request("GET", "2", <<"/tweets/">> \o tweet_id, "default", TWEET_PARAMS,
                EmptyDict, TRUE)

\* try: ... return User(data) / Tweet(res); except NotFoundError: return None
fetch_result(class, o) ==
    LET r == construct(class, o) IN
    IF r.kind = "raise" /\ r.exc = "NotFoundError" THEN Return(None) ELSE r

FetchCalls ==
    [name : {"fetch_user"}, user_id : IdArguments]
    \cup [name : {"fetch_user_byname"}, username : {<<"jack">>, <<"@", "jack">>}]
    \cup [name : {"fetch_tweet"}, tweet_id : {OBJECT_ID}]

---------------------------------------------------------------------------
(* The list-fetching methods of User and Tweet *)

Fields(names) == Dict([k \in DOMAIN names |-> <<names[k]>>])

\* params of fetch_followers, fetch_following, fetch_blockers, fetch_muters,
\* fetch_retweeters and fetch_likers
PINNED_PARAMS ==
    Fields([k \in {"expansions", "user.fields", "tweet.fields"} |->
              CASE k = "expansions" -> "PINNED_TWEET_EXPANSION"
                [] k = "user.fields" -> "USER_FIELD"
                [] OTHER -> "TWEET_FIELD"])

\* params of fetch_lists, fetch_list_memberships and fetch_followed_lists
LIST_PARAMS ==
    Fields([k \in {"expansions", "list.fields", "user.fields"} |->
              CASE k = "expansions" -> "LIST_EXPANSION"
                [] k = "list.fields" -> "LIST_FIELD"
                [] OTHER -> "USER_FIELD"])

\* start_time or end_time is given and is no datetime
timelines_check(m) ==
    IF m.start_time = "str"
      THEN Raise("ValueError", Str(<<"start_time or end_time must be a datetime object!">>))
      ELSE Normal

\* params of fetch_timelines: the fixed fields and the optional ones that are given
timelines_params(m) ==
    LET with_start == IF m.start_time = "datetime"
                        THEN SetItem(TWEET_PARAMS.v, "start_time", <<"isoformat">>)
                        ELSE TWEET_PARAMS.v
    IN  Dict(IF m.since_id # None
               THEN SetItem(with_start, "since_id", m.since_id.v)
               ELSE with_start)

ListMethodNames ==
    {"fetch_followers", "fetch_following", "fetch_blockers", "fetch_muters",
     "fetch_liked_tweets", "fetch_lists", "fetch_list_memberships",
     "fetch_followed_lists", "fetch_retweeters", "fetch_likers"}

ListCalls ==
    [name : ListMethodNames, id : {OBJECT_ID}]
    \* fetch_timelines with the optional arguments that the model varies
    \cup [name : {"fetch_timelines"}, id : {OBJECT_ID}, mentioned : BOOLEAN,
          start_time : {"none", "datetime", "str"}, since_id : {None, Str(<<"5">>)}]

Users(id, tail) == <<"/users/">> \o id \o <<tail>>
Tweets(id, tail) == <<"/tweets/">> \o id \o <<tail>>

\* the path of the method's request() call
list_path(m) ==
    CASE m.name = "fetch_followers" -> Users(m.id, "/followers")
      [] m.name = "fetch_following" -> Users(m.id, "/following")
      [] m.name = "fetch_blockers" -> Users(m.id, "/blocking")
      [] m.name = "fetch_muters" -> Users(m.id, "/muting")
      [] m.name = "fetch_timelines" ->
            IF ~m.mentioned THEN Users(m.id, "/tweets") ELSE Users(m.id, "/mentions")
      [] m.name = "fetch_liked_tweets" -> Users(m.id, "/liked_tweets")
      [] m.name = "fetch_lists" -> Users(m.id, "/owned_lists")
      [] m.name = "fetch_list_memberships" -> Users(m.id, "/list_memberships")
      [] m.name = "fetch_followed_lists" -> Users(m.id, "/followed_lists")
      [] m.name = "fetch_retweeters" -> Tweets(m.id, "/retweeted_by")
      [] OTHER -> Tweets(m.id, "/liking_users")

\* the endpoint_request= of the pagination object the method builds
list_endpoint(m) ==
    CASE m.name = "fetch_followers" -> Users(m.id, "/followers")
      [] m.name = "fetch_following" -> Users(m.id, "/following")
      [] m.name = "fetch_blockers" -> Users(m.id, "/blocking")
      [] m.name = "fetch_muters" -> Users(m.id, "/muting")
      [] m.name = "fetch_timelines" ->
            IF ~m.mentioned THEN Users(m.id, "/tweets") ELSE <<"/users/">> \o m.id
      [] m.name = "fetch_liked_tweets" -> Users(m.id, "/liked_tweets")
      [] m.name = "fetch_lists" -> Users(m.id, "/owned_lists")
      [] m.name = "fetch_list_memberships" -> Users(m.id, "/list_memberships")
      [] m.name = "fetch_followed_lists" -> Users(m.id, "/followed_lists")
      [] m.name = "fetch_retweeters" -> Tweets(m.id, "/retweeted_by")
      [] OTHER -> Tweets(m.id, "/liking_users")

\* the params= of the method's request() call and of its pagination object
list_params(m) ==
    CASE m.name \in {"fetch_followers", "fetch_following", "fetch_blockers",
                     "fetch_muters", "fetch_retweeters", "fetch_likers"} -> PINNED_PARAMS
      [] m.name = "fetch_timelines" -> timelines_params(m)
      [] m.name = "fetch_liked_tweets" -> TWEET_PARAMS
      [] OTHER -> LIST_PARAMS

list_auth(m) == m.name \in {"fetch_blockers", "fetch_muters"}

list_class(m) ==
    CASE m.name \in {"fetch_followers", "fetch_following", "fetch_blockers",
                     "fetch_muters", "fetch_retweeters", "fetch_likers"} -> "UserPagination"
      [] m.name \in {"fetch_timelines", "fetch_liked_tweets"} -> "TweetPagination"
      [] OTHER -> "ListPagination"

list_request(m) ==
    api_request("GET", "2", list_path(m), "default", list_params(m), EmptyDict, list_auth(m))

\* UserPagination(res, endpoint_request=..., http_client=..., params=...)
Pagination(class, res, endpoint, params) ==
    Object(class, [data |-> res, endpoint_request |-> endpoint, params |-> params])

\* if not res: return []; return ...Pagination(res, ...)
list_result(m, o) ==
    IF o.kind = "raise" THEN o
    ELSE IF ~PyTruthy(o.value) THEN Return(List(<<>>))
    ELSE Return(Pagination(list_class(m), o.value, list_endpoint(m), list_params(m)))

---------------------------------------------------------------------------
(* HTTPClient.post_tweet and HTTPClient.send_message *)

\* str(x) of a JSON value
PyStr(x) == [t |-> "str", of |-> x]

TEXT == <<"hello">>
RECIPIENT == <<"123">>

\* the files callers attach: none, or a File whose source holds the declared bytes
Attachments == {None} \cup {[t |-> "File", file |-> f] : f \in WholeFiles}

CreationCalls ==
    [name : {"post_tweet"}, text : {TEXT}, file : Attachments]
    \cup [name : {"send_message"}, user_id : {RECIPIENT}, text : {TEXT}, file : Attachments]

\* payload of post_tweet: the text and, after an upload, media.media_ids
tweet_payload(m, media) ==
    IF Len(media) = 0
      THEN Dict([text |-> m.text])
      ELSE Dict([text |-> m.text, media |-> [media_ids |-> <<PyStr(media[1])>>]])

\* data of send_message: the event and, after an upload, its attachment
message_payload(m, media) ==
    LET message_data ==
          IF Len(media) = 0
            THEN [text |-> m.text]
            ELSE [text |-> m.text,
                  attachment |-> [type |-> <<"media">>, media |-> [id |-> PyStr(media[1])]]]
    IN  Dict([event |-> [type |-> <<"message_create">>,
                         message_create |-> [target |-> [recipient_id |-> m.user_id],
                                             message_data |-> message_data]]])

\* the request that creates the tweet or the message
creation_request(m, media) ==
    IF m.name = "post_tweet"
      THEN api_request("POST", "2", <<"/tweets">>, "default", EmptyDict,
                       tweet_payload(m, media), TRUE)
      ELSE api_request("POST", "1.1", <<"/direct_messages/events/new.json">>, "default",
                       EmptyDict, message_payload(m, media), TRUE)

\* self.upload(file, command, media_id=media_id)
upload_phase(m, command, media_id) ==
    [command |-> command, file |-> m.file.file, media_id |-> media_id]

\* post_tweet: data = res.get("data"); Message(data.get("text"), data.get("id"), 1)
post_tweet_result(o) ==
    IF o.kind = "raise" THEN o
    ELSE IF o.value.t # "dict" \/ "data" \notin DOMAIN o.value.v
      THEN Raise("AttributeError", Str(<<"get">>))
    ELSE Return(Object("Message", o.value.v["data"]))

\* send_message: res.get("event").get("message_create") ... .get("recipient_id")
recipient_of(o) ==
    IF o.kind = "raise" THEN o
    ELSE IF o.value.t # "dict" \/ "event" \notin DOMAIN o.value.v
      THEN Raise("AttributeError", Str(<<"get">>))
    ELSE Return(o.value.v["event"]["message_create"]["target"]["recipient_id"])

---------------------------------------------------------------------------
(* The next page of a pagination object.  pytweet/paginations.py is not    *)
(* part of the sources at hand: next_page is written from the description   *)
(* of the cursor.                                                           *)

\* the token in the metadata block of the page the object holds: <<>> when it has none
next_token(res) ==
    IF /\ res.t = "dict"
       /\ "meta" \in DOMAIN res.v
       /\ "next_token" \in DOMAIN res.v["meta"]
      THEN <<res.v["meta"]["next_token"]>>
      ELSE <<>>

\* the pagination objects a caller can hold: built over a page with or without a token
Paginations ==
    {Pagination("UserPagination", Dict(MakeObject(<<>>, meta)),
                Users(OBJECT_ID, "/followers"), PINNED_PARAMS) : meta \in MetaOptions}

NextPageCalls == [name : {"next_page"}, pagination : Paginations]

\* the stored endpoint and parameters, with the token added
next_page_request(pg) ==
    api_request("GET", "2", pg.data.endpoint_request, "default",
                Dict(SetItem(pg.data.params.v, "pagination_token",
                             next_token(pg.data.data)[1])),
                EmptyDict, FALSE)

\* the next page: a pagination object over the response, with its token if it has one
next_page_result(pg, o) ==
    IF o.kind = "raise" THEN o
    ELSE Return(Pagination(pg.t, o.value, pg.data.endpoint_request, pg.data.params))

---------------------------------------------------------------------------
(* The methods as steps: entry to first call, call to call, and the end    *)

MethodCalls ==
    AuthorCalls \cup HideCalls \cup FetchCalls \cup ListCalls \cup CreationCalls
    \cup NextPageCalls

Phase(phase, media) == [phase |-> phase, media |-> media]

\* the method is entered and runs to its first request() or upload(), or to its end
method_begin(m) ==
    /\ pc = "idle"
    /\ upload_pc = "idle"
    /\ method_pc = "idle"
    /\ method_call' = m
    /\ UNCHANGED <<threads, other_client>>
    /\ IF m.name = "author"
         THEN /\ method_locals' = Phase("property", <<>>)
              /\ method_ends(author(m.tweet), <<>>)
       ELSE IF m.name \in {"post_tweet", "send_message"}
         THEN IF m.file.t = "File"
                THEN /\ method_locals' = Phase("INIT", <<>>)
                     /\ method_calls_upload(upload_phase(m, "INIT", None), <<>>)
                ELSE /\ method_locals' = Phase("create", <<>>)
                     /\ method_calls_request(creation_request(m, <<>>), <<>>)
       ELSE IF m.name = "fetch_user" /\ int_check(m.user_id).kind = "raise"
         THEN /\ method_locals' = Phase("check", <<>>)
              /\ method_ends(int_check(m.user_id), <<>>)
       ELSE IF m.name = "fetch_timelines" /\ timelines_check(m).kind = "raise"
         THEN /\ method_locals' = Phase("check", <<>>)
              /\ method_ends(timelines_check(m), <<>>)
       ELSE IF m.name = "next_page" /\ next_token(m.pagination.data.data) = <<>>
         THEN /\ method_locals' = Phase("exhausted", <<>>)
              /\ method_ends(Return(None), <<>>)
       ELSE /\ method_locals' = Phase("request", <<>>)
            /\ method_calls_request(
                  IF m.name = "hide" THEN hide_request(m.id)
                  ELSE IF m.name = "unhide" THEN unhide_request(m.id)
                  ELSE IF m.name = "fetch_user" THEN fetch_user_request(m.user_id, credentials)
                  ELSE IF m.name = "fetch_user_byname"
                    THEN fetch_user_byname_request(m.username, credentials)
                  ELSE IF m.name = "fetch_tweet" THEN fetch_tweet_request(m.tweet_id)
                  ELSE IF m.name = "next_page" THEN next_page_request(m.pagination)
                  ELSE list_request(m),
                  <<>>)

\* what a method of one request() call makes of the call's outcome
method_result(m, o) ==
    IF m.name \in {"hide", "unhide"} THEN construct("RelationHide", o)
    ELSE IF m.name \in {"fetch_user", "fetch_user_byname"} THEN fetch_result("User", o)
    ELSE IF m.name = "fetch_tweet" THEN fetch_result("Tweet", o)
    ELSE IF m.name = "next_page" THEN next_page_result(m.pagination, o)
    ELSE IF m.name = "post_tweet" THEN post_tweet_result(o)
    ELSE list_result(m, o)

\* request() has ended and the method goes on
after_request(m, locals, log) ==
    IF m.name = "send_message" /\ locals.phase = "create"
      THEN LET r == recipient_of(outcome) IN
           IF r.kind = "raise"
             THEN /\ method_locals' = locals
                  /\ method_ends(r, log)
           ELSE IF int_check(r.value).kind = "raise"
             THEN /\ method_locals' = locals
                  /\ method_ends(int_check(r.value), log)
           ELSE /\ method_locals' = Phase("recipient", locals.media)
                /\ method_calls_request(fetch_user_request(r.value, credentials), log)
    ELSE IF m.name = "send_message"
      THEN /\ method_locals' = locals
           /\ method_ends(LET u == fetch_result("User", outcome) IN
                          IF u.kind = "raise" THEN u
                          ELSE Return(Object("DirectMessage", u.value)), log)
    ELSE /\ method_locals' = locals
         /\ method_ends(method_result(m, outcome), log)

\* upload() has ended and post_tweet or send_message goes on
after_upload(m, locals, log) ==
    IF upload_outcome.kind = "raise"
      THEN /\ method_locals' = locals
           /\ method_ends(upload_outcome, log)
    ELSE IF locals.phase = "INIT"
      THEN /\ method_locals' = Phase("APPEND", <<upload_outcome.value>>)
           /\ method_calls_upload(upload_phase(m, "APPEND", upload_outcome.value), log)
    ELSE IF locals.phase = "APPEND"
      THEN /\ method_locals' = Phase("FINALIZE", locals.media)
           /\ method_calls_upload(upload_phase(m, "FINALIZE", locals.media[1]), log)
    ELSE /\ method_locals' = Phase("create", locals.media)
         /\ method_calls_request(creation_request(m, locals.media), log)

method_resume ==
    /\ UNCHANGED <<method_call, threads, other_client>>
    /\ \/ /\ method_pc = "request"
          /\ pc = "done"
          /\ after_request(method_call, method_locals,
                           method_log \o call_events(wire, response))
       \/ /\ method_pc = "upload"
          /\ upload_pc = "done"
          /\ after_upload(method_call, method_locals, method_log \o upload_log)

\* the caller has the method's result
method_returns ==
    /\ method_pc = "done"
    /\ method_pc' = "idle"
    /\ method_call' = <<>>
    /\ method_locals' = <<>>
    /\ method_log' = <<>>
    /\ method_outcome' = Pending
    /\ UNCHANGED <<request_vars, upload_vars, threads, other_client>>

NextMethods ==
    \/ \E m \in MethodCalls : method_begin(m)
    \/ \E r \in Responses : respond(r)
    \/ upload_resume
    \/ method_resume
    \/ method_returns

SpecMethods == Init /\ [][NextMethods]_vars

---------------------------------------------------------------------------
(* What the claims about the methods speak of *)

MethodDone == method_pc = "done"
MethodOf(names) == method_pc # "idle" /\ method_call.name \in names
MethodSends == SelectSeq(method_log, IsSend)
MethodReceived == SelectSeq(method_log, IsReceived)
MethodReturned == method_outcome.kind = "return"
MethodRaised == method_outcome.kind = "raise"

\* includes.users of a tweet payload: <<>> when the payload has none
IncludedUsers(payload) ==
    IF "includes" \in DOMAIN payload /\ "users" \in DOMAIN payload["includes"]
      THEN payload["includes"]["users"]
      ELSE <<>>

(* C22: Tweet.author is the entry of includes.users whose id is the        *)
(* tweet's author_id, wherever it stands in the list; without includes or   *)
(* without such an entry it is None.                                        *)
C22_AuthorIsMatchingUser ==
    (MethodDone /\ MethodOf({"author"})) =>
        LET users == IncludedUsers(method_call.tweet)
            author_id == method_call.tweet["data"]["author_id"]
        IN  IF \E i \in 1..Len(users) : users[i].id = author_id
              THEN \E i \in 1..Len(users) :
                      /\ users[i].id = author_id
                      /\ method_outcome = Return(Object("User", users[i]))
              ELSE method_outcome = Return(None)

\* which request of post_tweet or send_message a send is
SendKind(e) ==
    IF e.req.data.t = "dict" /\ "command" \in DOMAIN e.req.data.v
      THEN e.req.data.v["command"]
    ELSE IF "command" \in DOMAIN e.req.params.v THEN "STATUS"
    ELSE IF e.req.method = "POST" THEN "CREATE"
    ELSE "RECIPIENT"

Rank(kind) ==
    CASE kind = "INIT" -> 1
      [] kind = "APPEND" -> 2
      [] kind = "FINALIZE" -> 3
      [] kind = "STATUS" -> 4
      [] kind = "CREATE" -> 5
      [] OTHER -> 6

SendsOfKind(kind) == {i \in 1..Len(MethodSends) : SendKind(MethodSends[i]) = kind}

\* the media_id of the INIT response: <<>> when INIT got no 200 body with one
InitMediaId ==
    IF Len(MethodReceived) >= 1 /\ HasMediaId(MethodReceived[1].resp)
      THEN <<MethodReceived[1].resp.text.document.v["media_id"]>>
      ELSE <<>>

\* the media id a creation request carries: <<>> when it carries none
CreatedWith(req) ==
    IF "media" \in DOMAIN req.json.v
      THEN <<req.json.v["media"]["media_ids"][1]>>
    ELSE IF "event" \in DOMAIN req.json.v
              /\ "attachment" \in DOMAIN req.json.v["event"]["message_create"]["message_data"]
      THEN <<req.json.v["event"]["message_create"]["message_data"]["attachment"]["media"]["id"]>>
    ELSE <<>>

\* every response so far is a 200 of the upload endpoint that reports no failure
UploadsAccepted ==
    \A i \in 1..Len(MethodReceived) :
        /\ MethodReceived[i].resp.status_code = 200
        /\ MethodReceived[i].resp.text.document \in UploadDocuments
        /\ ~ReportsState(MethodReceived[i].resp, {"failed"})

WithFile == MethodOf({"post_tweet", "send_message"}) /\ method_call.file.t = "File"

(* C21: post_tweet and send_message with a file send INIT, then the        *)
(* APPENDs, then FINALIZE and its STATUS polls, then the creation request;  *)
(* APPEND, FINALIZE and the creation payload carry the media_id of the INIT *)
(* response; when an upload phase raises no creation request is sent, and   *)
(* when the server accepts every phase the creation request is sent after   *)
(* all segments and FINALIZE.                                               *)
C21_UploadThenCreate ==
    (MethodDone /\ WithFile) =>
        /\ \A i, j \in 1..Len(MethodSends) :
              i < j => Rank(SendKind(MethodSends[i])) <= Rank(SendKind(MethodSends[j]))
        /\ \A k \in {"INIT", "FINALIZE", "CREATE"} : Cardinality(SendsOfKind(k)) <= 1
        /\ \A i \in SendsOfKind("APPEND") \cup SendsOfKind("FINALIZE") :
              <<MethodSends[i].req.data.v["media_id"]>> = InitMediaId
        /\ \A i \in SendsOfKind("CREATE") :
              /\ Len(InitMediaId) = 1
              /\ CreatedWith(MethodSends[i].req) = <<PyStr(InitMediaId[1])>>
        /\ (MethodRaised /\ method_locals.phase \in {"INIT", "APPEND", "FINALIZE"}) =>
              SendsOfKind("CREATE") = {}
        /\ (AllCredentials /\ UploadsAccepted) =>
              /\ Cardinality(SendsOfKind("INIT")) = 1
              /\ Cardinality(SendsOfKind("APPEND")) =
                    Ceil(method_call.file.file.total_bytes, SEGMENT_SIZE)
              /\ Cardinality(SendsOfKind("FINALIZE")) = 1
              /\ Cardinality(SendsOfKind("CREATE")) = 1

\* a 200 response whose body is a page: a JSON object without errors that
\* request() returns as it is
IsPage(resp) ==
    /\ resp.status_code = 200
    /\ resp.text.document.t = "dict"
    /\ "errors" \notin DOMAIN resp.text.document.v
    /\ decode(resp, TRUE) = Return(resp.text.document)

(* C23: the next page of a pagination object without a token sends         *)
(* nothing; with a token it sends exactly one request, to the stored        *)
(* endpoint and with that token, and gives the caller a pagination object   *)
(* that holds the token of the response, or none when the response has      *)
(* none; a list-fetching method itself sends the first-page request only.   *)
C23_OneFetchPerToken ==
    /\ (MethodDone /\ MethodOf(ListMethodNames \cup {"fetch_timelines"})) =>
          Len(MethodSends) <= 1
    /\ (MethodDone /\ MethodOf({"next_page"})) =>
          LET pg == method_call.pagination
              token == next_token(pg.data.data)
          IN  IF Len(token) = 0
                THEN MethodSends = <<>>
                ELSE /\ Len(MethodSends) = 1
                     /\ MethodSends[1].req.url = base_url \o <<"2">> \o pg.data.endpoint_request
                     /\ MethodSends[1].req.params.v["pagination_token"] = token[1]
                     /\ (Len(MethodReceived) = 1 /\ IsPage(MethodReceived[1].resp)) =>
                           /\ MethodReturned
                           /\ next_token(method_outcome.value.data.data) =
                                 next_token(MethodReceived[1].resp.text.document)

---------------------------------------------------------------------------
(* Two HTTPClient instances in one process.  The dict bound to the default *)
(* headers={} of request() belongs to the function, so both instances use   *)
(* the one dict; credentials and _auth belong to the instance.              *)

OtherCredentialValue(k) == Str(<<"other-value-of", k>>)

\* the credential dicts the second instance can hold: values of its own
OtherClients ==
    { c \in [ {CredentialNames[i] : i \in 1..Len(CredentialNames)} ->
                {None} \cup {OtherCredentialValue(CredentialNames[i]) : i \in 1..Len(CredentialNames)} ] :
        /\ \A i \in 1..Len(CredentialNames) :
              c[CredentialNames[i]] \in {None, OtherCredentialValue(CredentialNames[i])}
        /\ Cardinality({i \in 1..Len(CredentialNames) : c[CredentialNames[i]] = None}) <= MaxAbsent }

Instance(c, session) == [t |-> "HTTPClient", credentials |-> c, auth_session |-> session]

\* HTTPClient(bearer_token, consumer_key=..., ...): the second instance is constructed
new_client(c) ==
    /\ other_client = None
    /\ other_client' = Instance(c, None)
    /\ UNCHANGED <<request_vars, upload_vars, threads, method_vars>>

\* the caller turns to the other instance for its next call
switch_client ==
    /\ pc = "idle"
    /\ other_client # None
    /\ credentials' = other_client.credentials
    /\ auth_session' = other_client.auth_session
    /\ other_client' = Instance(credentials, auth_session)
    /\ UNCHANGED <<default_headers, pc, args, wire, response, outcome>>
    /\ UNCHANGED <<upload_vars, threads, method_vars>>

\* the calls of the two instances: bearer-only requests, with the default
\* headers or with a dict of the caller's that holds no Authorization
BearerArgs ==
    {a \in Args : ~a.auth /\ a.is_json /\ a.headers \in {"default", "own"}
                  /\ a.json = EmptyDict /\ a.data = EmptyDict}

NextTwoClients ==
    \/ \E c \in OtherClients : new_client(c)
    \/ switch_client
    \/ \E a \in BearerArgs : request(a)
    \/ \E r \in ThreadResponses : respond(r)
    \/ finish

SpecTwoClients == Init /\ [][NextTwoClients]_vars

(* C24: every request sent without a caller-supplied Authorization header  *)
(* carries "Bearer <token>" with the bearer token of the instance that      *)
(* makes the call, whatever calls this or another instance made before.     *)
C24_OwnBearerToken ==
    \A i \in 1..Len(Sends) :
        args.headers \in {"default", "own"} =>
            Sends[i].req.headers["Authorization"] = <<"Bearer", credentials["bearer_token"]>>

---------------------------------------------------------------------------
(* More about upload() *)

\* the bytes of the source from the position its reader starts at
Available(file) == IF file.size > file.start THEN file.size - file.start ELSE 0

(* C25: upload APPEND sends finitely many APPEND requests for every        *)
(* source, also one that holds fewer bytes than the declared total_bytes:   *)
(* at most one per segment of the bytes the source holds, and none once     *)
(* the source has no byte left.                                             *)
C25_AppendStopsAtExhaustion ==
    UploadOf("APPEND") =>
        /\ Len(UploadSends) <= Ceil(Available(upload_call.file), SEGMENT_SIZE)
        /\ \A i \in 1..Len(UploadSends) :
              UploadSends[i].req.files.v["media"].length > 0

\* a pending or in_progress report was received with status 200
PendingReported ==
    \E i \in 1..Len(UploadReceived) :
        ReportsState(UploadReceived[i].resp, {"pending", "in_progress"})

(* C26: every request of an upload (INIT, each APPEND, FINALIZE and the    *)
(* STATUS poll that follows a pending or in_progress report) goes to the    *)
(* upload endpoint URL, none to the API base URL.                           *)
C26_UploadEndpointOnly ==
    /\ \A i \in 1..Len(UploadSends) : UploadSends[i].req.url = upload_url
    /\ (UploadDone /\ UploadOf("FINALIZE") /\ AllCredentials /\ ServerReports
           /\ PendingReported) =>
          \E i \in 1..Len(UploadSends) :
              IsPoll(UploadSends[i]) /\ UploadSends[i].req.url = upload_url

\* request() reports success for this response: 201, 202, 204, or a 200 of
\* the upload endpoint without processing_info
ReportedSuccessful(resp) ==
    \/ resp.status_code \in {201, 202, 204}
    \/ /\ resp.status_code = 200
       /\ resp.text.document \in UploadDocuments
       /\ Len(ReportOf(resp)) = 0

(* C27: upload FINALIZE returns normally, without a poll, whenever its     *)
(* request is answered as successful: by a 200 without processing_info or   *)
(* by a 201, 202 or 204, which request() returns as None.                   *)
C27_FinalizeAcceptsEmptySuccess ==
    (UploadDone /\ UploadOf("FINALIZE") /\ AllCredentials
        /\ Len(UploadReceived) >= 1 /\ ReportedSuccessful(UploadReceived[1].resp)) =>
        /\ upload_outcome = Return(None)
        /\ Len(UploadSends) = 1

---------------------------------------------------------------------------
(* More about the methods *)

\* the response is one that request() classifies as not found: a 404, or a
\* 200 whose first errors entry has a detail starting with "Could not find"
IsNotFound(resp) ==
    \/ resp.status_code = 404
    \/ /\ resp.status_code = 200
       /\ HasErrors(resp.text.document)
       /\ "detail" \in DOMAIN resp.text.document.v["errors"][1]
       /\ StartsWith(resp.text.document.v["errors"][1]["detail"], COULD_NOT_FIND)

(* C28: fetch_user, fetch_user_byname and fetch_tweet return None when the *)
(* lookup is answered as not found, by a 404 or by a 200 with a "Could not  *)
(* find" error entry; no exception reaches the caller.                      *)
C28_NotFoundIsNone ==
    (MethodDone /\ MethodOf({"fetch_user", "fetch_user_byname", "fetch_tweet"})
        /\ Len(MethodReceived) >= 1 /\ IsNotFound(MethodReceived[1].resp)) =>
        method_outcome = Return(None)

(* C29: a list-fetching method that received a non-empty page returns a    *)
(* pagination object whose stored endpoint path and parameters are the path *)
(* and the parameters of the first-page request it sent.                    *)
C29_PaginationKeepsEndpoint ==
    (MethodDone /\ MethodOf(ListMethodNames \cup {"fetch_timelines"})
        /\ Len(MethodReceived) >= 1 /\ IsPage(MethodReceived[1].resp)
        /\ PyTruthy(MethodReceived[1].resp.text.document)) =>
        /\ MethodReturned
        /\ "endpoint_request" \in DOMAIN method_outcome.value.data
        /\ base_url \o <<"2">> \o method_outcome.value.data.endpoint_request
              = MethodSends[1].req.url
        /\ method_outcome.value.data.params = MethodSends[1].req.params

(* C30: every request of Tweet.hide and of Tweet.unhide is a PUT to        *)
(* /tweets/{id}/hidden; the body of hide says hidden = true and the body of *)
(* unhide says hidden = false.                                              *)
C30_HideAndUnhideDiffer ==
    MethodOf({"hide", "unhide"}) =>
        \A i \in 1..Len(MethodSends) :
            /\ MethodSends[i].req.method = "PUT"
            /\ MethodSends[i].req.url
                  = base_url \o <<"2">> \o <<"/tweets/">> \o method_call.id \o <<"/hidden">>
            /\ MethodSends[i].req.json
                  = Dict([hidden |-> IF method_call.name = "hide" THEN PyTrue ELSE PyFalse])

====
